---- MODULE Spec2Model ----
(***************************************************************************)
(* Model of the bundle-access membrane (crates/bundle): the revocation     *)
(* latch, the block-window guard, the epoch guard, the guard chain of      *)
(* BundleAccessServer and the grant builder that mints servers at graft(). *)
(*                                                                         *)
(* One membrane is built by bundle_membrane(); the epoch publisher, the    *)
(* searcher (revoke), the builder (graft, simulate, include) and the       *)
(* Simulator's futures are interleaved one step at a time.                 *)
(***************************************************************************)
EXTENDS Naturals, Sequences, FiniteSets

(***************************************************************************)
(* Bounds of the model.                                                    *)
(***************************************************************************)
MaxSeq == 1          \* epoch sequence numbers are 0..MaxSeq
MaxHead == 1         \* chain-head identifiers are 0..MaxHead
MaxBlock == 2        \* block heights (window bounds, targets) are 0..MaxBlock
MaxServers == 2      \* graft() calls modelled
MaxPending == 1      \* simulate() futures in flight at once
MaxRevokes == 2      \* revoke() calls counted
MaxTxs == 1          \* transactions in a bundle

Seqs == 0..MaxSeq
Heads == 0..MaxHead
Blocks == 0..MaxBlock

\* BundleSpec values: the ordered transactions of a bundle (opaque bytes).
Bundles == {[i \in 1..n |-> i] : n \in 1..MaxTxs}

\* SimResult values the Simulator collaborator may resolve to.
SimResults ==
    { [gas_used |-> 21000, success |-> TRUE, state_root |-> "ab", revert_reason |-> ""],
      [gas_used |-> 0, success |-> FALSE, state_root |-> "", revert_reason |-> "reverted"] }

VARIABLES
    epoch,      \* the value held by the watch channel: the published Epoch
    flags,      \* heap of AtomicBool cells, indexed by Arc identity
    handle,     \* RevocationHandle kept by the searcher
    membrane,   \* the BundleGrantBuilder inside the MembraneServer
    servers,    \* BundleAccessServers minted so far, in graft order
    grants,     \* wire-level BundleGrant of each graft
    pending,    \* simulate() futures not yet resolved
    reply,      \* what the step just taken returned to its caller, if anything
    stale,      \* servers on which a call has failed the epoch check
    revokes     \* number of revoke() calls made (capped at MaxRevokes)

vars == <<epoch, flags, handle, membrane, servers, grants, pending, reply, stale, revokes>>

OK == "ok"
NoReply ==
    [srv |-> 0, method |-> "none", target |-> 0, status |-> "none",
     error |-> "", included |-> FALSE, result |-> <<>>]

(***************************************************************************)
(* Epoch and EpochGuard (membrane_core::epoch).                            *)
(***************************************************************************)
Epoch(seq, head) == [seq |-> seq, head |-> head, adopted_block |-> 100]

\* An EpochGuard holds issued_seq and a receiver of the watch channel; the
\* receiver always yields the latest published value, i.e. `epoch`.
EpochGuard(issued_seq) == [issued_seq |-> issued_seq]

EpochGuard_check_advance_only(g, current) ==
    IF current.seq > g.issued_seq THEN "staleEpoch" ELSE OK

EpochGuard_check(g, current) ==
    IF current.seq # g.issued_seq THEN "staleEpoch" ELSE OK

(***************************************************************************)
(* RevocationGuard / RevocationHandle (revocation.rs).                     *)
(***************************************************************************)
\* RevocationGuard::new: a fresh cell holding false, shared by both halves.
RevocationGuard_new(fl) ==
    [flags |-> Append(fl, FALSE),
     handle |-> [revoked |-> Len(fl) + 1],
     guard |-> [revoked |-> Len(fl) + 1]]

RevocationGuard_clone_deep(g, fl) ==
    [flags |-> Append(fl, fl[g.revoked]), guard |-> [revoked |-> Len(fl) + 1]]

\* #[derive(Clone)]: the clone holds the same Arc, no cell is allocated.
RevocationGuard_clone(g, fl) ==
    [flags |-> fl, guard |-> [revoked |-> g.revoked]]

RevocationGuard_check_never(g, fl) == OK

RevocationGuard_check(g, fl) ==
    IF fl[g.revoked] THEN "revoked" ELSE OK

RevocationHandle_revoke_store_false(h, fl) == [fl EXCEPT ![h.revoked] = FALSE]

RevocationHandle_revoke_toggle(h, fl) == [fl EXCEPT ![h.revoked] = ~fl[h.revoked]]

RevocationHandle_revoke(h, fl) == [fl EXCEPT ![h.revoked] = TRUE]

RevocationHandle_is_revoked_negated(h, fl) == ~fl[h.revoked]

RevocationHandle_is_revoked(h, fl) == fl[h.revoked]

(***************************************************************************)
(* BlockWindowGuard (access.rs).                                           *)
(***************************************************************************)
BlockWindowGuard(valid_from, valid_until) ==
    [valid_from |-> valid_from, valid_until |-> valid_until]

BlockWindowGuard_check_exclusive(w, target_block) ==
    IF target_block <= w.valid_from \/ target_block >= w.valid_until
    THEN "blockOutOfWindow" ELSE OK

BlockWindowGuard_check_both(w, target_block) ==
    IF target_block < w.valid_from /\ target_block > w.valid_until
    THEN "blockOutOfWindow" ELSE OK

BlockWindowGuard_check(w, target_block) ==
    IF target_block < w.valid_from \/ target_block > w.valid_until
    THEN "blockOutOfWindow" ELSE OK

(***************************************************************************)
(* BundleAccessServer: the guard chain.                                    *)
(***************************************************************************)
check_all_window_first(srv, target_block, current, fl) ==
    IF BlockWindowGuard_check(srv.block_window, target_block) # OK
    THEN BlockWindowGuard_check(srv.block_window, target_block)
    ELSE IF RevocationGuard_check(srv.revocation_guard, fl) # OK
    THEN RevocationGuard_check(srv.revocation_guard, fl)
    ELSE EpochGuard_check(srv.epoch_guard, current)

check_all_no_revocation(srv, target_block, current, fl) ==
    IF EpochGuard_check(srv.epoch_guard, current) # OK
    THEN EpochGuard_check(srv.epoch_guard, current)
    ELSE BlockWindowGuard_check(srv.block_window, target_block)

\* Each `?` returns the first error; later guards are not evaluated.
check_all(srv, target_block, current, fl) ==
    IF EpochGuard_check(srv.epoch_guard, current) # OK
    THEN EpochGuard_check(srv.epoch_guard, current)
    ELSE IF RevocationGuard_check(srv.revocation_guard, fl) # OK
    THEN RevocationGuard_check(srv.revocation_guard, fl)
    ELSE BlockWindowGuard_check(srv.block_window, target_block)

(***************************************************************************)
(* BundleGrantBuilder::build and bundle_membrane (grant.rs).               *)
(***************************************************************************)
\* build() written with the guard's bounds exchanged.
build_swapped_window(self, guard, fl, n) ==
    LET c == RevocationGuard_clone(self.revocation_guard, fl) IN
    [flags |-> c.flags,
     grant |-> [valid_from_block |-> self.valid_from,
                valid_until_block |-> self.valid_until,
                builder_pubkey |-> self.builder_pubkey,
                bundle_access |-> n],
     server |-> [epoch_guard |-> guard,
                 revocation_guard |-> c.guard,
                 block_window |-> BlockWindowGuard(self.valid_until, self.valid_from),
                 bundle |-> self.bundle]]

\* build() written with a latch of its own for every grant.
build_fresh_latch(self, guard, fl, n) ==
    LET c == RevocationGuard_new(fl) IN
    [flags |-> c.flags,
     grant |-> [valid_from_block |-> self.valid_from,
                valid_until_block |-> self.valid_until,
                builder_pubkey |-> self.builder_pubkey,
                bundle_access |-> n],
     server |-> [epoch_guard |-> guard,
                 revocation_guard |-> c.guard,
                 block_window |-> BlockWindowGuard(self.valid_from, self.valid_until),
                 bundle |-> self.bundle]]

\* build(): fills the grant and mints a BundleAccessServer from the epoch
\* guard handed in by graft() and the builder's own guard, window and bundle.
build(self, guard, fl, n) ==
    LET c == RevocationGuard_clone(self.revocation_guard, fl) IN
    [flags |-> c.flags,
     grant |-> [valid_from_block |-> self.valid_from,
                valid_until_block |-> self.valid_until,
                builder_pubkey |-> self.builder_pubkey,
                bundle_access |-> n],
     server |-> [epoch_guard |-> guard,
                 revocation_guard |-> c.guard,
                 block_window |-> BlockWindowGuard(self.valid_from, self.valid_until),
                 bundle |-> self.bundle]]

bundle_membrane(bundle, valid_from, valid_until, builder_pubkey) ==
    LET p == RevocationGuard_new(<<>>) IN
    [flags |-> p.flags,
     handle |-> p.handle,
     grant_builder |-> [bundle |-> bundle,
                        valid_from |-> valid_from,
                        valid_until |-> valid_until,
                        builder_pubkey |-> builder_pubkey,
                        revocation_guard |-> p.guard]]

(***************************************************************************)
(* Initial state: an epoch channel and one membrane over it.               *)
(***************************************************************************)
Init ==
    \E seq \in Seqs, head \in Heads, b \in Bundles, vf \in Blocks, vu \in Blocks :
        LET m == bundle_membrane(b, vf, vu, "pk") IN
        /\ epoch = Epoch(seq, head)
        /\ flags = m.flags
        /\ handle = m.handle
        /\ membrane = m.grant_builder
        /\ servers = <<>>
        /\ grants = <<>>
        /\ pending = <<>>
        /\ reply = NoReply
        /\ stale = {}
        /\ revokes = 0

(***************************************************************************)
(* What a call returns.  simulate() returns a Promise: "promised" when the *)
(* guard chain passed and the future was created, "err" when pry! returned *)
(* the guard's error.  The future later resolves to "ok" or "err".         *)
(***************************************************************************)
Failed(s, method, t, tag) ==
    [srv |-> s, method |-> method, target |-> t, status |-> "err", error |-> tag,
     included |-> FALSE, result |-> <<>>]

Promised(s, t) ==
    [srv |-> s, method |-> "simulate", target |-> t, status |-> "promised",
     error |-> "", included |-> FALSE, result |-> <<>>]

Included_unset(s, t) ==
    [srv |-> s, method |-> "include", target |-> t, status |-> "ok",
     error |-> "", included |-> FALSE, result |-> <<>>]

Included(s, t) ==
    [srv |-> s, method |-> "include", target |-> t, status |-> "ok",
     error |-> "", included |-> TRUE, result |-> <<>>]

\* graft() returns the session whose extension holds the n-th capability.
Grafted(n) ==
    [srv |-> n, method |-> "graft", target |-> 0, status |-> "ok",
     error |-> "", included |-> FALSE, result |-> <<>>]

\* The four setters of simulate(): each SimResult field is copied as is.
SimulateResults(sim) ==
    [gas_used |-> sim.gas_used, success |-> sim.success,
     state_root |-> sim.state_root, revert_reason |-> sim.revert_reason]

(***************************************************************************)
(* The epoch publisher: watch::Sender::send replaces the published value.  *)
(***************************************************************************)
PublishEpoch(seq, head) ==
    /\ epoch' = Epoch(seq, head)
    /\ reply' = NoReply
    /\ UNCHANGED <<flags, handle, membrane, servers, grants, pending, stale, revokes>>

(***************************************************************************)
(* MembraneServer::graft: snapshot the current epoch, bind a guard to it,  *)
(* and let the extension builder mint the capability.                      *)
(***************************************************************************)
graft_guard_next(current) == EpochGuard((current.seq + 1) % (MaxSeq + 1))

graft_guard(current) == EpochGuard(current.seq)

graft ==
    /\ Len(servers) < MaxServers
    /\ LET r == build(membrane, graft_guard(epoch), flags, Len(servers) + 1) IN
        /\ flags' = r.flags
        /\ servers' = Append(servers, r.server)
        /\ grants' = Append(grants, r.grant)
    /\ reply' = Grafted(Len(servers) + 1)
    /\ UNCHANGED <<epoch, handle, membrane, pending, stale, revokes>>

(***************************************************************************)
(* The searcher: RevocationHandle::revoke.                                 *)
(***************************************************************************)
revoke ==
    /\ revokes < MaxRevokes
    /\ flags' = RevocationHandle_revoke(handle, flags)
    /\ revokes' = revokes + 1
    /\ reply' = NoReply
    /\ UNCHANGED <<epoch, handle, membrane, servers, grants, pending, stale>>

(***************************************************************************)
(* BundleAccess RPC surface.                                               *)
(***************************************************************************)
Servers == 1..Len(servers)

simulate_entry_unchecked(srv, target_block, current, fl) == OK

\* pry!(self.check_all(target_block)): an error returns from simulate at once.
simulate_entry(srv, target_block, current, fl) ==
    check_all(srv, target_block, current, fl)

include_entry(srv, target_block, current, fl) ==
    check_all(srv, target_block, current, fl)

\* simulate(): guard chain, then a future that owns clones of the bundle and
\* the simulator.  The future has not been polled yet when simulate returns.
simulate(s, t) ==
    LET r == simulate_entry(servers[s], t, epoch, flags) IN
    /\ UNCHANGED <<epoch, flags, handle, membrane, servers, grants, revokes>>
    /\ IF r # OK
       THEN /\ reply' = Failed(s, "simulate", t, r)
            /\ stale' = IF r = "staleEpoch" THEN stale \cup {s} ELSE stale
            /\ UNCHANGED pending
       ELSE /\ Len(pending) < MaxPending
            /\ pending' = Append(pending,
                   [srv |-> s, target |-> t, bundle |-> servers[s].bundle,
                    pc |-> "queued", sim |-> <<>>])
            /\ reply' = Promised(s, t)
            /\ UNCHANGED stale

\* First poll of the future: simulator.simulate(&bundle, target_block).
simulate_dispatch(call) == [bundle |-> call.bundle, target_block |-> call.target]

SimulatorDispatch(i) ==
    /\ pending[i].pc = "queued"
    /\ pending' = [pending EXCEPT ![i].pc = "awaiting",
                                  ![i].sim = <<simulate_dispatch(pending[i])>>]
    /\ reply' = NoReply
    /\ UNCHANGED <<epoch, flags, handle, membrane, servers, grants, stale, revokes>>

Remove(q, i) == [j \in 1..(Len(q) - 1) |-> IF j < i THEN q[j] ELSE q[j + 1]]

simulate_resolve_swallow(call, out) ==
    [srv |-> call.srv, method |-> "simulate", target |-> call.target,
     status |-> "ok", error |-> "", included |-> FALSE,
     result |-> IF out.ok THEN <<SimulateResults(out.sim)>> ELSE <<>>]

\* The Simulator resolves: `?` propagates its error, otherwise the result
\* is written into the response.
simulate_resolve(call, out) ==
    IF out.ok
    THEN [srv |-> call.srv, method |-> "simulate", target |-> call.target,
          status |-> "ok", error |-> "", included |-> FALSE,
          result |-> <<SimulateResults(out.sim)>>]
    ELSE [srv |-> call.srv, method |-> "simulate", target |-> call.target,
          status |-> "err", error |-> out.error, included |-> FALSE,
          result |-> <<>>]

SimOutcomes ==
    {[ok |-> TRUE, sim |-> r, error |-> ""] : r \in SimResults}
        \cup {[ok |-> FALSE, sim |-> <<>>, error |-> "simulationFailure"]}

SimulatorResolve(i, out) ==
    /\ pending[i].pc = "awaiting"
    /\ reply' = simulate_resolve(pending[i], out)
    /\ pending' = Remove(pending, i)
    /\ UNCHANGED <<epoch, flags, handle, membrane, servers, grants, stale, revokes>>

\* include(): guard chain, then included = true.
include(s, t) ==
    LET r == include_entry(servers[s], t, epoch, flags) IN
    /\ UNCHANGED <<epoch, flags, handle, membrane, servers, grants, pending, revokes>>
    /\ IF r # OK
       THEN /\ reply' = Failed(s, "include", t, r)
            /\ stale' = IF r = "staleEpoch" THEN stale \cup {s} ELSE stale
       ELSE /\ reply' = Included(s, t)
            /\ UNCHANGED stale

Next ==
    \/ \E seq \in Seqs, head \in Heads : PublishEpoch(seq, head)
    \/ graft
    \/ revoke
    \/ \E s \in Servers, t \in Blocks : simulate(s, t)
    \/ \E s \in Servers, t \in Blocks : include(s, t)
    \/ \E i \in 1..Len(pending) : SimulatorDispatch(i)
    \/ \E i \in 1..Len(pending), out \in SimOutcomes : SimulatorResolve(i, out)

Spec == Init /\ [][Next]_vars

(***************************************************************************)
(* Vocabulary of the properties.  A call's guards are evaluated in the     *)
(* step that sets `reply`, and a call changes neither the epoch nor the    *)
(* latch, so in a state where FromEntry holds the epoch and the latch are  *)
(* those the guards saw.                                                   *)
(***************************************************************************)
GuardTags == {"staleEpoch", "revoked", "blockOutOfWindow"}

\* reply is what simulate() or include() itself returned (not a resolved future).
FromEntry ==
    \/ reply.method = "include"
    \/ reply.method = "simulate" /\ reply.status = "promised"
    \/ reply.method = "simulate" /\ reply.status = "err" /\ reply.error \in GuardTags

Passed == reply.status \in {"ok", "promised"}

EpochCurrent(s) == epoch.seq = servers[s].epoch_guard.issued_seq

LatchSet == flags[handle.revoked]

InWindow(s, t) ==
    servers[s].block_window.valid_from <= t /\ t <= servers[s].block_window.valid_until

\* C1: the guard chain runs epoch -> revocation -> block window and a call
\* fails with the error of the first failing guard only: staleEpoch whenever
\* the epoch is stale, revoked whenever the epoch is current and the latch
\* is set, blockOutOfWindow only with a current epoch and an unset latch.
C1_GuardOrder ==
    FromEntry =>
        /\ ~EpochCurrent(reply.srv) =>
               reply.status = "err" /\ reply.error = "staleEpoch"
        /\ EpochCurrent(reply.srv) /\ LatchSet =>
               reply.status = "err" /\ reply.error = "revoked"
        /\ reply.error = "blockOutOfWindow" =>
               EpochCurrent(reply.srv) /\ ~LatchSet /\ ~InWindow(reply.srv, reply.target)

\* All three guards fail at once and the call reports the epoch.
C1_Witness ==
    /\ FromEntry
    /\ ~EpochCurrent(reply.srv) /\ LatchSet /\ ~InWindow(reply.srv, reply.target)
    /\ reply.error = "staleEpoch"

AllGuards == {membrane.revocation_guard} \cup {servers[s].revocation_guard : s \in Servers}

\* C2: the latch is one-way: false until the first revoke(), and in every
\* state after a revoke() it is true and every RevocationGuard.check() fails
\* with revoked, whatever else has happened since.
C2_LatchOneWay ==
    /\ revokes = 0 => ~RevocationHandle_is_revoked(handle, flags)
    /\ revokes >= 1 =>
           /\ RevocationHandle_is_revoked(handle, flags)
           /\ \A g \in AllGuards : RevocationGuard_check(g, flags) = "revoked"

\* A call made after a revoke, an epoch publication and a graft is refused.
C2_Witness ==
    /\ revokes >= 1
    /\ Len(servers) = MaxServers
    /\ FromEntry /\ reply.error = "revoked"

\* C3: a call passes the guard chain and reaches its effect if and only if
\* the published seq equals issued_seq, the latch is unset and the target
\* lies in [valid_from, valid_until].
C3_PassIff ==
    FromEntry =>
        /\ Passed <=>
               /\ EpochCurrent(reply.srv)
               /\ ~LatchSet
               /\ InWindow(reply.srv, reply.target)
        /\ reply.method = "include" /\ Passed => reply.included
        /\ reply.method = "simulate" /\ Passed =>
               /\ pending # <<>>
               /\ pending[Len(pending)].srv = reply.srv
               /\ pending[Len(pending)].target = reply.target
        /\ ~Passed => reply.error \in GuardTags /\ ~reply.included

C3_Witness ==
    /\ FromEntry /\ reply.method = "simulate" /\ Passed
    /\ pending # <<>>
    /\ reply.target = servers[reply.srv].block_window.valid_until

\* C4: EpochGuard.check() succeeds exactly when the published seq equals
\* issued_seq and fails with staleEpoch when it differs, whether larger
\* (advance) or smaller (rollback).
C4_EpochGuard ==
    /\ \A s \in Servers :
           /\ EpochGuard_check(servers[s].epoch_guard, epoch) = OK
                  <=> epoch.seq = servers[s].epoch_guard.issued_seq
           /\ epoch.seq # servers[s].epoch_guard.issued_seq
                  => EpochGuard_check(servers[s].epoch_guard, epoch) = "staleEpoch"
    /\ FromEntry =>
           (reply.error = "staleEpoch"
                <=> epoch.seq # servers[reply.srv].epoch_guard.issued_seq)

\* A call refused after a rollback: the published seq is below issued_seq.
C4_Witness ==
    /\ FromEntry /\ reply.error = "staleEpoch"
    /\ epoch.seq < servers[reply.srv].epoch_guard.issued_seq

\* C5: graft() binds the minted server to the epoch current at that graft;
\* once the epoch is replaced by another seq every call on that server
\* fails with staleEpoch, while a server grafted after the replacement has
\* the new seq and passes the epoch guard.
C5_GraftBinds ==
    [][ /\ Len(servers') > Len(servers) =>
               /\ servers'[Len(servers')].epoch_guard.issued_seq = epoch.seq
               /\ EpochGuard_check(servers'[Len(servers')].epoch_guard, epoch') = OK
               /\ \A s \in Servers : servers'[s] = servers[s]
        /\ FromEntry' /\ epoch'.seq # servers'[reply'.srv].epoch_guard.issued_seq =>
               reply'.status = "err" /\ reply'.error = "staleEpoch"
        /\ FromEntry' /\ epoch'.seq = servers'[reply'.srv].epoch_guard.issued_seq =>
               reply'.error # "staleEpoch"
      ]_vars

\* Two grafts at different epochs: the older server has been refused as
\* stale, the newer one has just been accepted.
C5_Witness ==
    /\ Len(servers) = 2
    /\ servers[1].epoch_guard.issued_seq # servers[2].epoch_guard.issued_seq
    /\ 1 \in stale
    /\ FromEntry /\ reply.srv = 2 /\ Passed

\* C6: every clone of the RevocationGuard observes the handle's latch: all
\* clones' check() results agree in every state, and after revoke() every
\* clone fails, including those inside servers minted before the revoke.
C6_ClonesShareLatch ==
    /\ \A g1 \in AllGuards : \A g2 \in AllGuards :
           RevocationGuard_check(g1, flags) = RevocationGuard_check(g2, flags)
    /\ \A s \in Servers : servers[s].revocation_guard.revoked = handle.revoked
    /\ revokes >= 1 =>
           \A s \in Servers :
               RevocationGuard_check(servers[s].revocation_guard, flags) = "revoked"

\* A server that admitted a call while the latch was unset now fails its
\* revocation check: the revoke reached a clone minted before it.
C6_Witness ==
    /\ pending # <<>>
    /\ revokes >= 1
    /\ Len(servers) = 2
    /\ RevocationGuard_check(servers[pending[1].srv].revocation_guard, flags) = "revoked"

\* C7: revoke() is idempotent: a revoke() after the first changes nothing
\* but the number of calls made: the latch, is_revoked(), every guard check
\* and the verdict of every later call are what they were after the first.
C7_RevokeIdempotent ==
    [][ revokes >= 1 /\ revokes' > revokes =>
            /\ flags' = flags
            /\ RevocationHandle_is_revoked(handle', flags')
            /\ \A g \in AllGuards : RevocationGuard_check(g, flags') = "revoked"
            /\ \A s \in Servers : \A t \in Blocks :
                   check_all(servers'[s], t, epoch', flags')
                       = check_all(servers[s], t, epoch, flags)
            /\ UNCHANGED <<epoch, handle, membrane, servers, grants, pending, stale>>
      ]_vars

\* A call made after two revoke() calls.
C7_Witness ==
    /\ revokes = 2
    /\ FromEntry /\ reply.error = "revoked"

\* C8: BlockWindowGuard.check(t) succeeds iff valid_from <= t <= valid_until,
\* both bounds included, and otherwise fails with blockOutOfWindow.
C8_WindowInclusive ==
    /\ \A s \in Servers : \A t \in Blocks :
           BlockWindowGuard_check(servers[s].block_window, t) =
               IF servers[s].block_window.valid_from <= t
                      /\ t <= servers[s].block_window.valid_until
               THEN OK ELSE "blockOutOfWindow"
    /\ FromEntry /\ EpochCurrent(reply.srv) /\ ~LatchSet =>
           /\ Passed <=> InWindow(reply.srv, reply.target)
           /\ ~Passed => reply.error = "blockOutOfWindow"

\* A target one past valid_until is refused although valid_until is not.
C8_Witness ==
    /\ FromEntry /\ reply.error = "blockOutOfWindow"
    /\ servers[reply.srv].block_window.valid_from
           < servers[reply.srv].block_window.valid_until
    /\ reply.target = servers[reply.srv].block_window.valid_until + 1

\* C9: a simulate call that fails a guard never reaches the Simulator: a
\* future is created only by a step whose three guards hold for that call
\* and target, the Simulator is dispatched only for a future created
\* earlier, and a refused call leaves the futures untouched.
C9_NoDispatchOnFailure ==
    [][ /\ Len(pending') > Len(pending) =>
               LET c == pending'[Len(pending')] IN
               /\ EpochCurrent(c.srv) /\ ~LatchSet /\ InWindow(c.srv, c.target)
               /\ c.pc = "queued" /\ c.sim = <<>>
               /\ reply' = Promised(c.srv, c.target)
               /\ \A j \in 1..Len(pending) : pending'[j] = pending[j]
        /\ Len(pending') = Len(pending) =>
               \A i \in 1..Len(pending) :
                   pending'[i].sim # pending[i].sim =>
                       /\ pending[i].pc = "queued"
                       /\ pending'[i].sim = <<[bundle |-> pending[i].bundle,
                                               target_block |-> pending[i].target]>>
        /\ reply'.method = "simulate" /\ reply'.status = "err"
               /\ reply'.error \in GuardTags => pending' = pending
      ]_vars

\* A simulate call is refused while an earlier one is with the Simulator.
C9_Witness ==
    /\ reply.method = "simulate" /\ reply.status = "err" /\ reply.error \in GuardTags
    /\ Len(pending) = 1 /\ pending[1].pc = "awaiting"

C11_ReorgInvalidates ==
    [][ /\ reply.method = "graft"
        /\ epoch'.seq = epoch.seq /\ epoch'.head # epoch.head
        => /\ EpochGuard_check(servers'[reply.srv].epoch_guard, epoch') = "staleEpoch"
           /\ \A t \in Blocks :
                  check_all(servers'[reply.srv], t, epoch', flags') = "staleEpoch"
      ]_vars

\* A revoke() leaves the futures in flight alone, and a future that
\* completes while the latch is set completes with the Simulator's outcome.
InFlightSurvivesRevoke ==
    /\ revokes' > revokes => pending' = pending
    /\ LatchSet /\ Len(pending') < Len(pending) =>
           \E i \in 1..Len(pending) : \E out \in SimOutcomes :
               /\ pending[i].pc = "awaiting"
               /\ pending' = Remove(pending, i)
               /\ reply'.srv = pending[i].srv /\ reply'.target = pending[i].target
               /\ reply'.method = "simulate"
               /\ IF out.ok
                  THEN reply'.status = "ok" /\ reply'.result = <<out.sim>>
                  ELSE reply'.status = "err" /\ reply'.error = out.error

\* C12 as stated: revocation is evaluated only at call entry: a simulate
\* admitted before revoke() is not aborted and completes with the
\* Simulator's result, and every call whose guards are evaluated after
\* revoke() fails with revoked.
C12_RevokedAtEntry ==
    [][ /\ InFlightSurvivesRevoke
        /\ FromEntry' /\ revokes' >= 1 =>
               reply'.status = "err" /\ reply'.error = "revoked"
      ]_vars

\* C12, amended: as above, but a call whose guards are evaluated after
\* revoke() fails with revoked only if the epoch is current; if it is stale
\* the call fails with staleEpoch, the epoch guard coming first.
C12_RevokedAtEntryEpochFirst ==
    [][ /\ InFlightSurvivesRevoke
        /\ FromEntry' /\ revokes' >= 1 =>
               /\ reply'.status = "err"
               /\ reply'.error =
                      IF epoch'.seq = servers'[reply'.srv].epoch_guard.issued_seq
                      THEN "revoked" ELSE "staleEpoch"
      ]_vars

\* A simulate admitted before the revoke has completed, after it, with the
\* Simulator's result.
C12_Witness ==
    /\ revokes >= 1
    /\ reply.method = "simulate" /\ reply.status = "ok" /\ reply.result # <<>>

\* C13: include(t) with the three guards satisfied returns included = true
\* and nothing else, creates no future and dispatches nothing to the
\* Simulator, whatever futures are in flight or have completed before.
C13_IncludeUnconditional ==
    [][ reply'.method = "include" =>
            /\ pending' = pending
            /\ EpochCurrent(reply'.srv) /\ ~LatchSet
                   /\ InWindow(reply'.srv, reply'.target) =>
                   reply' = [srv |-> reply'.srv, method |-> "include",
                             target |-> reply'.target, status |-> "ok",
                             error |-> "", included |-> TRUE, result |-> <<>>]
      ]_vars

\* include succeeds while a simulate of the same server is with the Simulator.
C13_Witness ==
    /\ reply.method = "include" /\ reply.status = "ok" /\ reply.included
    /\ Len(pending) = 1 /\ pending[1].pc = "awaiting" /\ pending[1].srv = reply.srv

\* C14: an admitted simulate(t) hands the server's own bundle and the same
\* t to the Simulator and returns exactly the Simulator's outcome: its four
\* result fields unmodified on success, its error and no result on failure.
C14_SimulateVerbatim ==
    [][ /\ Len(pending') > Len(pending) =>
               /\ pending'[Len(pending')].bundle = servers[reply'.srv].bundle
               /\ pending'[Len(pending')].bundle = membrane.bundle
               /\ pending'[Len(pending')].target = reply'.target
        /\ Len(pending') = Len(pending) =>
               \A i \in 1..Len(pending) :
                   pending'[i].sim # pending[i].sim =>
                       pending'[i].sim =
                           <<[bundle |-> servers[pending[i].srv].bundle,
                              target_block |-> pending[i].target]>>
        /\ Len(pending') < Len(pending) =>
               \E i \in 1..Len(pending) : \E out \in SimOutcomes :
                   /\ pending[i].sim # <<>>
                   /\ pending' = Remove(pending, i)
                   /\ reply' =
                          [srv |-> pending[i].srv, method |-> "simulate",
                           target |-> pending[i].target,
                           status |-> IF out.ok THEN "ok" ELSE "err",
                           error |-> out.error, included |-> FALSE,
                           result |-> IF out.ok THEN <<out.sim>> ELSE <<>>]
      ]_vars

\* The Simulator failed and the call failed with its error, without result.
C14_Witness ==
    /\ reply.method = "simulate" /\ reply.status = "err"
    /\ reply.error = "simulationFailure" /\ reply.result = <<>>

\* C15: a blockOutOfWindow failure disqualifies only that call's target: the
\* next call on the same server with a target inside the window succeeds,
\* provided the epoch is still current and the latch still unset.
C15_WindowFailureNotSticky ==
    [][ /\ FromEntry /\ reply.error = "blockOutOfWindow"
        /\ FromEntry' /\ reply'.srv = reply.srv
        /\ epoch'.seq = servers'[reply'.srv].epoch_guard.issued_seq
        /\ ~flags'[handle'.revoked]
        /\ servers'[reply'.srv].block_window.valid_from <= reply'.target
        /\ reply'.target <= servers'[reply'.srv].block_window.valid_until
        => /\ reply'.status \in {"ok", "promised"}
           /\ servers' = servers
      ]_vars

\* A call has just failed on its target only, and the same server can now
\* be called with a target inside its window and accepts it.
C15_Witness ==
    /\ FromEntry /\ reply.error = "blockOutOfWindow"
    /\ \E t \in Blocks :
           /\ InWindow(reply.srv, t)
           /\ ENABLED (include(reply.srv, t) /\ reply'.status = "ok")

\* C16: guard evaluation and the builder-facing operations only read guard
\* state: simulate, include, a resolving future and graft() leave the latch,
\* the published epoch and every existing server's issued_seq, window and
\* bundle as they were; the latch changes only in a revoke() step and the
\* epoch only in a publication step.
C16_ReadOnlyGuards ==
    [][ /\ reply'.method \in {"simulate", "include", "graft"} =>
               /\ flags' = flags /\ handle' = handle /\ membrane' = membrane
               /\ epoch' = epoch
               /\ revokes' = revokes
               /\ \A s \in Servers :
                      /\ servers'[s].epoch_guard = servers[s].epoch_guard
                      /\ servers'[s].revocation_guard = servers[s].revocation_guard
                      /\ servers'[s].block_window = servers[s].block_window
                      /\ servers'[s].bundle = servers[s].bundle
        /\ flags' # flags =>
               /\ revokes' = revokes + 1
               /\ flags' = [flags EXCEPT ![handle.revoked] = TRUE]
               /\ reply' = NoReply
               /\ UNCHANGED <<epoch, servers, grants, pending>>
        /\ epoch' # epoch =>
               /\ reply' = NoReply
               /\ UNCHANGED <<flags, revokes, servers, grants, pending>>
      ]_vars

\* A graft made after a revoke and an epoch change: the latch is still the
\* one cell, still set, and the first server still has its issued_seq.
C16_Witness ==
    /\ reply.method = "graft" /\ reply.srv = 2
    /\ flags = <<TRUE>>
    /\ servers[1].epoch_guard.issued_seq # epoch.seq

\* C17: every server minted by graft() on the membrane shares the one latch
\* of bundle_membrane(): after a revoke() every call on every server fails,
\* and a graft() after the revoke succeeds but yields a server on which
\* every call fails with revoked (staleEpoch once its epoch is stale).
C17_MembraneWideRevocation ==
    /\ \A s \in Servers :
           servers[s].revocation_guard.revoked = membrane.revocation_guard.revoked
    /\ revokes >= 1 =>
           \A s \in Servers : \A t \in Blocks :
               check_all(servers[s], t, epoch, flags) =
                   IF EpochCurrent(s) THEN "revoked" ELSE "staleEpoch"
    /\ FromEntry /\ revokes >= 1 =>
           /\ reply.status = "err"
           /\ reply.error = IF EpochCurrent(reply.srv) THEN "revoked" ELSE "staleEpoch"
    /\ reply.method = "graft" =>
           /\ reply.status = "ok" /\ reply.srv = Len(servers)
           /\ revokes >= 1 =>
                  \A t \in Blocks :
                      check_all(servers[reply.srv], t, epoch, flags) = "revoked"

\* A second graft has just succeeded although the membrane is revoked.
C17_Witness ==
    /\ reply.method = "graft" /\ reply.status = "ok" /\ reply.srv = 2
    /\ revokes >= 1
    /\ \E t \in Blocks :
           /\ InWindow(2, t)
           /\ check_all(servers[2], t, epoch, flags) = "revoked"

\* C18: the valid_from_block and valid_until_block written into a grant are
\* the bounds of the BlockWindowGuard of the server installed as its
\* bundle_access, so the server accepts exactly the targets of the range
\* the grant advertises, for as long as the grant exists.
C18_GrantMatchesWindow ==
    /\ Len(grants) = Len(servers)
    /\ \A n \in 1..Len(grants) :
           LET w == servers[grants[n].bundle_access].block_window IN
           /\ grants[n].bundle_access = n
           /\ grants[n].valid_from_block = w.valid_from
           /\ grants[n].valid_until_block = w.valid_until
           /\ \A t \in Blocks :
                  BlockWindowGuard_check(w, t) = OK
                      <=> grants[n].valid_from_block <= t
                              /\ t <= grants[n].valid_until_block
    /\ FromEntry /\ EpochCurrent(reply.srv) /\ ~LatchSet =>
           (Passed <=> /\ grants[reply.srv].valid_from_block <= reply.target
                       /\ reply.target <= grants[reply.srv].valid_until_block)

\* A call at the last block a two-block grant advertises is accepted.
C18_Witness ==
    /\ Len(grants) = 2
    /\ FromEntry /\ Passed
    /\ grants[reply.srv].valid_from_block < grants[reply.srv].valid_until_block
    /\ reply.target = grants[reply.srv].valid_until_block

\* C19: in every state is_revoked() on the handle is true if and only if
\* check() fails on every guard of its pair, and a call on a current server
\* is refused as revoked exactly when the handle says so.
C19_HandleAgreesWithGuards ==
    /\ \A g \in AllGuards :
           RevocationHandle_is_revoked(handle, flags)
               <=> RevocationGuard_check(g, flags) = "revoked"
    /\ \A g \in AllGuards :
           ~RevocationHandle_is_revoked(handle, flags)
               <=> RevocationGuard_check(g, flags) = OK
    /\ FromEntry /\ EpochCurrent(reply.srv) =>
           (reply.error = "revoked" <=> RevocationHandle_is_revoked(handle, flags))

\* The handle reports revoked and the second server's guard has just refused.
C19_Witness ==
    /\ RevocationHandle_is_revoked(handle, flags)
    /\ reply.method = "include" /\ reply.srv = 2 /\ reply.error = "revoked"

\* C20: a window with valid_from > valid_until is accepted by
\* bundle_membrane() and build(); graft() succeeds, but every simulate and
\* include fails for every target (with blockOutOfWindow when the epoch is
\* current and the latch unset) and the Simulator is never reached.
C20_InvertedWindow ==
    membrane.valid_from > membrane.valid_until =>
        /\ reply.method = "graft" => reply.status = "ok" /\ Len(servers) = reply.srv
        /\ \A s \in Servers : \A t \in Blocks :
               /\ check_all(servers[s], t, epoch, flags) # OK
               /\ EpochCurrent(s) /\ ~LatchSet =>
                      check_all(servers[s], t, epoch, flags) = "blockOutOfWindow"
        /\ reply.method \in {"simulate", "include"} =>
               /\ reply.status = "err" /\ reply.error \in GuardTags
               /\ EpochCurrent(reply.srv) /\ ~LatchSet =>
                      reply.error = "blockOutOfWindow"
        /\ pending = <<>>

\* A simulate on a server of an inverted grant is refused for its target.
C20_Witness ==
    /\ membrane.valid_from > membrane.valid_until
    /\ Len(servers) = 2
    /\ reply.method = "simulate" /\ reply.error = "blockOutOfWindow"

====
